---- MODULE Spec2Model ----
(***************************************************************************)
(* Model of the three analysis scripts of paper-02-monetary-regimes:       *)
(*   regime_welfare.py, regime_sweep.py, regime_charts.py.                 *)
(*                                                                         *)
(* Numbers.  Python integers are unbounded and the scripts' floats are     *)
(* modelled as exact rationals (IEEE-754 rounding is outside the model).   *)
(* TLC's integers are 32 bits wide, so integers are kept as sign and       *)
(* magnitude, the magnitude a little-endian sequence of limbs, and a       *)
(* rational is a pair of such integers with a positive denominator.        *)
(***************************************************************************)
EXTENDS Integers, Sequences, FiniteSets, TLC

VARIABLES
    script,       \* the script being run: "welfare", "sweep" or "charts"
    term,         \* the terminal CSV files on disk: <<regime, level>> -> rows
    ts,           \* the time-series CSV files on disk: a set of <<regime, level>>
    pc,           \* the position of the run in the script
    console,      \* standard output of the run: the printed lines
    loads,        \* the files the run tried to read, in order
    welfare,      \* regime_welfare.py: the list welfare (the rows of wdf)
    data,         \* regime_sweep.py: data_pln and data_eur
    means,        \* regime_sweep.py: the groupby tables of figure 1
    figs,         \* the figures directory: file name -> what was drawn
    error,        \* the exception that ended the run, "" if none
    runs,         \* how many times the script was started
    prev,         \* what the previous run of the script left behind
    row,          \* compute_welfare: the terminal-state row r being processed
    bdp_amount,   \* compute_welfare: the nominal sweep level passed in
    wrec,         \* compute_welfare: the locals and the welfare record of row
    wpc,          \* compute_welfare: "ready" before the row is processed, "done" after
    srec,         \* load_sweep: the record appended for row, <<>> before
    apc,          \* aggregation of shuffled rows: the step reached
    loaded,       \* the loaded records, in the order they were read
    shuffled,     \* the same records in another order
    stats         \* the means and stds computed from loaded and from shuffled

rowVars == <<row, bdp_amount, wrec, wpc, srec>>

aggVars == <<apc, loaded, shuffled, stats>>

runVars == <<script, term, ts, pc, console, loads, welfare, data, means, figs,
             error, runs, prev>>

vars == <<runVars, rowVars, aggVars>>

----------------------------------------------------------------------------
(* Unbounded integers.  The operations are written with carry look-ahead   *)
(* rather than limb-by-limb recursion, which keeps TLC's evaluation shallow, *)
(* and an intermediate value that is used more than once is passed as an     *)
(* argument, which keeps the expanded formulas small.                        *)

Base == 10^3

Max(S) == CHOOSE x \in S : \A y \in S : y <= x

\* A function on 1..n as a sequence
AsSeq(f, n) == SubSeq(f, 1, n)

\* Drop the most significant zero limbs
Strip(m) ==
    LET nz == {i \in 1..Len(m) : m[i] # 0}
    IN  IF nz = {} THEN <<>> ELSE SubSeq(m, 1, Max(nz))

\* The magnitude of a TLC integer 0 <= n < 2^31
MagOf(n) ==
    Strip(<<n % Base, (n \div Base) % Base, (n \div (Base * Base)) % Base,
            n \div (Base * Base * Base)>>)

Limb(m, i) == IF 1 <= i /\ i <= Len(m) THEN m[i] ELSE 0

MagAdd(a, b) ==
    LET n == (IF Len(a) > Len(b) THEN Len(a) ELSE Len(b)) + 1
        s == AsSeq([i \in 1..n |-> Limb(a, i) + Limb(b, i)], n)
        carry(i) == \E j \in 1..(i - 1) :
                        /\ s[j] >= Base
                        /\ \A k \in (j + 1)..(i - 1) : s[k] = Base - 1
    IN  Strip(AsSeq([i \in 1..n |-> (s[i] + (IF carry(i) THEN 1 ELSE 0)) % Base], n))

\* a - b for magnitudes with a >= b
MagSub(a, b) ==
    LET n == Len(a)
        borrow(i) == \E j \in 1..(i - 1) :
                         /\ a[j] < Limb(b, j)
                         /\ \A k \in (j + 1)..(i - 1) : a[k] = Limb(b, k)
    IN  Strip(AsSeq([i \in 1..n |->
                (a[i] - Limb(b, i) - (IF borrow(i) THEN 1 ELSE 0) + Base) % Base], n))

\* -1, 0 or 1 as a is below, equal to or above b (both stripped)
MagCmp(a, b) ==
    IF Len(a) < Len(b) THEN -1
    ELSE IF Len(a) > Len(b) THEN 1
    ELSE LET df == {i \in 1..Len(a) : a[i] # b[i]}
         IN  IF df = {} THEN 0
             ELSE IF a[Max(df)] < b[Max(df)] THEN -1 ELSE 1

\* The sum of f[lo..hi], by halves
RECURSIVE SumRange(_, _, _)
SumRange(f, lo, hi) ==
    IF lo > hi THEN 0
    ELSE IF lo = hi THEN f[lo]
    ELSE LET mid == (lo + hi) \div 2
         IN  SumRange(f, lo, mid) + SumRange(f, mid + 1, hi)

\* Column sums of the schoolbook product (each below 2^31 for operands of up to
\* 2000 limbs), split into limbs and added up
Columns(a, b, n) ==
    AsSeq([k \in 1..n |->
              LET lo == IF k - Len(b) + 1 > 1 THEN k - Len(b) + 1 ELSE 1
                  hi == IF k < Len(a) THEN k ELSE Len(a)
              IN  SumRange(AsSeq([i \in 1..hi |->
                                     IF i >= lo THEN a[i] * b[k + 1 - i] ELSE 0], hi),
                           lo, hi)], n)

ColumnPart(col, n, e) ==
    AsSeq([k \in 1..(n + e) |->
              IF k <= e THEN 0 ELSE (col[k - e] \div (Base ^ e)) % Base], n + e)

AddParts(col, n) ==
    MagAdd(MagAdd(ColumnPart(col, n, 0), ColumnPart(col, n, 1)),
           MagAdd(ColumnPart(col, n, 2), ColumnPart(col, n, 3)))

MagMul(a, b) ==
    IF a = <<>> \/ b = <<>> THEN <<>>
    ELSE AddParts(Columns(a, b, Len(a) + Len(b)), Len(a) + Len(b))

\* a / d for a divisor d of Base dividing a
MagDivExact(a, d) ==
    Strip(AsSeq([i \in 1..Len(a) |-> (a[i] + (Limb(a, i + 1) % d) * Base) \div d], Len(a)))

\* A signed integer; zero is [neg |-> FALSE, mag |-> <<>>], so equal integers
\* are equal values.
Big(n) == [neg |-> n < 0, mag |-> MagOf(IF n < 0 THEN -n ELSE n)]

BigNeg(x) == IF x.mag = <<>> THEN x ELSE [neg |-> ~x.neg, mag |-> x.mag]

BigAbs(x) == [neg |-> FALSE, mag |-> x.mag]

\* The integer of sign neg and magnitude m
Signed(neg, m) == [neg |-> (m # <<>>) /\ neg, mag |-> m]

\* x + y for integers of opposite signs, c the comparison of their magnitudes
AddOpposite(x, y, c) ==
    IF c > 0 THEN Signed(x.neg, MagSub(x.mag, y.mag))
    ELSE Signed(y.neg, MagSub(y.mag, x.mag))

BigAdd(x, y) ==
    IF x.neg = y.neg
    THEN Signed(x.neg, MagAdd(x.mag, y.mag))
    ELSE AddOpposite(x, y, MagCmp(x.mag, y.mag))

BigSub(x, y) == BigAdd(x, BigNeg(y))

BigMul(x, y) == Signed(x.neg # y.neg, MagMul(x.mag, y.mag))

BigSign(x) == IF x.mag = <<>> THEN 0 ELSE IF x.neg THEN -1 ELSE 1

\* -1, 0 or 1 as x is below, equal to or above y
BigCmp(x, y) == BigSign(BigSub(x, y))

----------------------------------------------------------------------------
(* Exact rationals standing for the scripts' floats *)

Rat(n, d) == [num |-> Big(n), den |-> Big(d)]

\* NaN is 0/0: a CSV cell <<0, 0>>, a computed value Rat(0, 0)
NaN == <<0, 0>>

RatNaN == Rat(0, 0)

\* pd.isna on a CSV cell
isna(v) == v[2] = 0

RatIsNaN(a) == a.den.mag = <<>>

RatOfBig(x) == [num |-> x, den |-> Big(1)]

\* a field of a CSV row, written <<n, d>> for the decimal n/d (d > 0)
Q(v) == Rat(v[1], v[2])

\* The same rational with the common factors 2, 5 and Base of numerator and
\* denominator cancelled (a smaller representation: comparisons cross-multiply,
\* so the representation never decides one).
RECURSIVE CancelBy(_, _)
CancelBy(nd, p) ==
    IF nd[1] # <<>> /\ nd[2] # <<>> /\ nd[1][1] % p = 0 /\ nd[2][1] % p = 0
    THEN CancelBy(<<MagDivExact(nd[1], p), MagDivExact(nd[2], p)>>, p)
    ELSE nd

LowZeros(m) == IF m = <<>> THEN 0 ELSE Max({i \in 1..Len(m) : \A k \in 1..(i - 1) : m[k] = 0}) - 1

Min2(x, y) == IF x < y THEN x ELSE y

\* n and d without their z lowest limbs
DropLimbs(n, d, z) == <<SubSeq(n, z + 1, Len(n)), SubSeq(d, z + 1, Len(d))>>

\* The rational of sign neg and magnitudes nd
Fraction(neg, nd) ==
    [num |-> [neg |-> neg, mag |-> nd[1]], den |-> [neg |-> FALSE, mag |-> nd[2]]]

RatReduce(a) ==
    IF a.den.mag = <<>> THEN a
    ELSE IF a.num.mag = <<>> THEN [num |-> a.num, den |-> Big(1)]
    ELSE Fraction(a.num.neg,
                  CancelBy(CancelBy(DropLimbs(a.num.mag, a.den.mag,
                                              Min2(LowZeros(a.num.mag),
                                                   LowZeros(a.den.mag))), 2), 5))

RatAdd(a, b) ==
    RatReduce([num |-> BigAdd(BigMul(a.num, b.den), BigMul(b.num, a.den)),
               den |-> BigMul(a.den, b.den)])

RatNeg(a) == [num |-> BigNeg(a.num), den |-> a.den]

RatSub(a, b) == RatAdd(a, RatNeg(b))

RatMul(a, b) ==
    RatReduce([num |-> BigMul(a.num, b.num), den |-> BigMul(a.den, b.den)])

\* a / b for b # 0; the denominator stays positive
RatDiv(a, b) ==
    RatReduce(IF b.num.neg
              THEN [num |-> BigMul(BigNeg(a.num), b.den),
                    den |-> BigMul(a.den, BigNeg(b.num))]
              ELSE [num |-> BigMul(a.num, b.den), den |-> BigMul(a.den, b.num)])

RatAbs(a) == [num |-> BigAbs(a.num), den |-> a.den]

RatCmp(a, b) == BigCmp(BigMul(a.num, b.den), BigMul(b.num, a.den))

\* Comparisons with NaN are false, as in IEEE-754
RatEq(a, b) == ~RatIsNaN(a) /\ ~RatIsNaN(b) /\ RatCmp(a, b) = 0

RatLe(a, b) == ~RatIsNaN(a) /\ ~RatIsNaN(b) /\ RatCmp(a, b) <= 0

RatLt(a, b) == ~RatIsNaN(a) /\ ~RatIsNaN(b) /\ RatCmp(a, b) < 0

RatOfInt(n) == Rat(n, 1)

RatSign(a) == BigSign(a.num)

\* Python's max(a, b): b only when b > a
RatMax(a, b) == IF RatLt(a, b) THEN b ELSE a

----------------------------------------------------------------------------
(* pandas Series.mean() and Series.std() (sample standard deviation, ddof = 1) *)

\* The values added up in row order
RECURSIVE SumTo(_, _)
SumTo(xs, n) ==
    IF n = 0 THEN RatOfInt(0) ELSE RatAdd(SumTo(xs, n - 1), xs[n])

Sum(xs) == SumTo(xs, Len(xs))

\* Mutant: a running average, (m + x) / 2 at each value
RECURSIVE running(_, _)
running(xs, n) ==
    IF n = 1 THEN xs[1]
    ELSE RatDiv(RatAdd(running(xs, n - 1), xs[n]), RatOfInt(2))

mean_running(xs) == IF Len(xs) = 0 THEN RatNaN ELSE running(xs, Len(xs))

\* NaN on an empty series
mean(xs) == IF Len(xs) = 0 THEN RatNaN ELSE RatDiv(Sum(xs), RatOfInt(Len(xs)))

RatSquare(a) == RatMul(a, a)

\* (x - m)^2 for each value x
squares(xs, m) == AsSeq([i \in 1..Len(xs) |-> RatSquare(RatSub(xs[i], m))], Len(xs))

\* The square of Series.std(): sum((x - mean)^2) / (n - 1), NaN for fewer than two
\* values.  std is the square root of this, so two series have equal std exactly
\* when they have equal std2, and the larger std has the larger std2.
std2(xs) ==
    IF Len(xs) < 2 THEN RatNaN
    ELSE RatDiv(Sum(squares(xs, mean(xs))), RatOfInt(Len(xs) - 1))

\* Series.mean() and Series.std() of one column, as in .agg(['mean', 'std']); the
\* std field holds std2
agg(xs) == [mean |-> mean(xs), std |-> std2(xs)]

\* int(n / d) for d > 0: truncation toward zero
TruncDiv(n, d) == IF n >= 0 THEN n \div d ELSE -((-n) \div d)

----------------------------------------------------------------------------
(* regime_welfare.py: compute_welfare *)

POPULATION == 100000

MPC == Rat(82, 100)

PriceFloor == Rat(1, 100)

\* Mutant: the unemployed count truncated on its own, int(unemp * POPULATION)
employment_split_both_truncated(unemp) ==
    [n_emp |-> TruncDiv((unemp[2] - unemp[1]) * POPULATION, unemp[2]),
     n_unemp |-> TruncDiv(unemp[1] * POPULATION, unemp[2])]

\* n_emp = int((1 - unemp) * POPULATION); n_unemp = POPULATION - n_emp
employment_split(unemp) ==
    LET n_emp == TruncDiv((unemp[2] - unemp[1]) * POPULATION, unemp[2])
    IN  [n_emp |-> n_emp, n_unemp |-> POPULATION - n_emp]

\* Mutant: the value of the column used as it is, missing or not
actual_bdp_no_fallback(r, bdp) ==
    IF "EffectiveBDP" \in DOMAIN r THEN r.EffectiveBDP ELSE <<bdp, 1>>

\* r.get('EffectiveBDP', bdp_amount), then the fallback on a missing value
actual_bdp_of(r, bdp) ==
    LET got == IF "EffectiveBDP" \in DOMAIN r THEN r.EffectiveBDP ELSE <<bdp, 1>>
    IN  IF isna(got) THEN <<bdp, 1>> ELSE got

total_income_of(n_emp, y_emp, n_unemp, y_unemp) ==
    RatAdd(RatMul(RatOfInt(n_emp), y_emp), RatMul(RatOfInt(n_unemp), y_unemp))

\* Mutant: the price level used without its floor
real_cons_pc_no_floor(total_income, price) ==
    RatDiv(RatDiv(RatMul(total_income, MPC), price), RatOfInt(POPULATION))

\* total_income * MPC / max(0.01, price), then / POPULATION
real_cons_pc_of(total_income, price) ==
    LET real_consumption == RatDiv(RatMul(total_income, MPC), RatMax(PriceFloor, price))
    IN  RatDiv(real_consumption, RatOfInt(POPULATION))

\* Mutant: the denominator without the population factor
gini_no_population(n_emp, n_unemp, y_emp, y_unemp, total_income) ==
    IF RatSign(total_income) > 0 /\ n_emp > 0 /\ n_unemp > 0
    THEN RatDiv(RatMul(RatOfBig(BigMul(Big(n_emp), Big(n_unemp))),
                       RatAbs(RatSub(y_emp, y_unemp))),
                total_income)
    ELSE Rat(0, 1)

\* Mutant: the income gap taken without abs()
gini_no_abs(n_emp, n_unemp, y_emp, y_unemp, total_income) ==
    IF RatSign(total_income) > 0 /\ n_emp > 0 /\ n_unemp > 0
    THEN RatDiv(RatMul(RatOfBig(BigMul(Big(n_emp), Big(n_unemp))),
                       RatSub(y_emp, y_unemp)),
                RatMul(RatOfInt(POPULATION), total_income))
    ELSE Rat(0, 1)

gini_of(n_emp, n_unemp, y_emp, y_unemp, total_income) ==
    IF RatSign(total_income) > 0 /\ n_emp > 0 /\ n_unemp > 0
    THEN RatDiv(RatMul(RatOfBig(BigMul(Big(n_emp), Big(n_unemp))),
                       RatAbs(RatSub(y_emp, y_unemp))),
                RatMul(RatOfInt(POPULATION), total_income))
    ELSE Rat(0, 1)

\* One iteration of compute_welfare's loop: the locals, and the appended record
\* (real_cons_pc, gini, adoption, unemployment).
\* Lines 53-68: from the incomes on
row_outputs(r, split, actual_bdp, y_emp, y_unemp, total_income) ==
    [n_emp |-> split.n_emp,
     n_unemp |-> split.n_unemp,
     actual_bdp |-> actual_bdp,
     y_emp |-> y_emp,
     y_unemp |-> y_unemp,
     total_income |-> total_income,
     real_cons_pc |-> real_cons_pc_of(total_income, Q(r.PriceLevel)),
     gini |-> gini_of(split.n_emp, split.n_unemp, y_emp, y_unemp, total_income),
     adoption |-> RatMul(Q(r.TotalAdoption), RatOfInt(100)),
     unemployment |-> RatMul(Q(r.Unemployment), RatOfInt(100))]

\* Lines 50-53: y_emp = wage + actual_bdp, y_unemp = actual_bdp, total_income
row_incomes(r, split, actual_bdp, y_emp) ==
    row_outputs(r, split, actual_bdp, y_emp, actual_bdp,
                total_income_of(split.n_emp, y_emp, split.n_unemp, actual_bdp))

row_transfer(r, split, actual_bdp) ==
    row_incomes(r, split, actual_bdp, RatAdd(Q(r.MarketWage), actual_bdp))

welfare_row(r, bdp) ==
    row_transfer(r, employment_split(r.Unemployment), Q(actual_bdp_of(r, bdp)))

WelfareRecord(l) ==
    [real_cons_pc |-> l.real_cons_pc, gini |-> l.gini,
     adoption |-> l.adoption, unemployment |-> l.unemployment]

\* compute_welfare(df, bdp_amount): one welfare record per row of df, in row order
compute_welfare(df, bdp) ==
    AsSeq([i \in 1..Len(df) |-> WelfareRecord(welfare_row(df[i], bdp))], Len(df))

----------------------------------------------------------------------------
(* The results tree: simulations/results/<regime>/sweep_<regime>_<level>_<kind>.csv *)

Regimes == <<"pln", "eur">>

\* regime.upper()
Upper(regime) == IF regime = "pln" THEN "PLN" ELSE "EUR"

\* How many of the sweep levels of BDP_LEVELS the model runs over
NumLevels == 2

\* The step between the sweep levels the model keeps: every eighth level of
\* BDP_LEVELS = list(range(0, 5001, 250)), so that the level 2000 of the paired
\* bars is among them
LevelStep == 8 * 250

BDP_LEVELS == AsSeq([i \in 1..NumLevels |-> (i - 1) * LevelStep], NumLevels)

BDP_SHOW == <<0, 2000, 3000>>

Range(q) == {q[i] : i \in 1..Len(q)}

\* fpath.exists(), and whether pd.read_csv finds the file
exists(fs, regime, bdp) == <<regime, bdp>> \in DOMAIN fs

\* One row per seed; a file may or may not have the EffectiveBDP column
Seed(unemp, wage, price, adoption, inflation) ==
    [Unemployment |-> unemp, MarketWage |-> wage, PriceLevel |-> price,
     TotalAdoption |-> adoption, Inflation |-> inflation,
     ExRate |-> <<43, 10>>, RefRate |-> <<5, 100>>, NPL |-> <<3, 100>>]

WithEffectiveBDP(r, v) == [x \in {"EffectiveBDP"} |-> v] @@ r

\* Two seeds, no EffectiveBDP column
FileA ==
    <<Seed(<<1, 10>>, <<3000, 1>>, <<1, 1>>, <<1, 4>>, <<2, 100>>),
      Seed(<<1, 5>>, <<3000, 1>>, <<1, 1>>, <<1, 2>>, <<3, 100>>)>>

\* A single seed, with the transfer cut by the fiscal constraint
FileB ==
    <<WithEffectiveBDP(Seed(<<1, 3>>, <<3200, 1>>, <<5, 4>>, <<3, 4>>, <<-1, 100>>),
                       <<150, 1>>)>>

\* Two seeds far apart, EffectiveBDP missing in the first
FileC ==
    <<WithEffectiveBDP(Seed(<<1, 10>>, <<2900, 1>>, <<11, 10>>, <<1, 10>>, <<4, 100>>),
                       NaN),
      WithEffectiveBDP(Seed(<<1, 2>>, <<2900, 1>>, <<1, 200>>, <<9, 10>>, <<6, 100>>),
                       <<200, 1>>)>>

Catalogue == {FileA, FileB, FileC}

\* Three seeds, no EffectiveBDP column
FileD ==
    <<Seed(<<1, 10>>, <<3000, 1>>, <<1, 1>>, <<1, 10>>, <<2, 100>>),
      Seed(<<1, 5>>, <<3100, 1>>, <<11, 10>>, <<1, 5>>, <<3, 100>>),
      Seed(<<3, 10>>, <<2800, 1>>, <<9, 10>>, <<7, 10>>, <<-1, 100>>)>>

\* The orders of n rows
Orders(n) ==
    {p \in [1..n -> 1..n] : \A i, j \in 1..n : p[i] = p[j] => i = j}

\* The rows of d in the order p: the same records, read in another order
shuffle(d, p) == AsSeq([i \in 1..Len(d) |-> d[p[i]]], Len(d))

Col(df, name) == AsSeq([i \in 1..Len(df) |-> df[i][name]], Len(df))

\* Series.idxmax(): the position of the first maximum among the values that are
\* not NaN; 0 stands for "no such value"
idxmax(xs) ==
    LET valid == {i \in 1..Len(xs) : ~RatIsNaN(xs[i])}
    IN  IF valid = {} THEN 0
        ELSE CHOOSE i \in valid :
                 \A j \in valid : RatLt(xs[j], xs[i]) \/ (i <= j /\ ~RatLt(xs[i], xs[j]))

----------------------------------------------------------------------------
(* regime_welfare.py *)

\* The (bdp, regime) pairs in the order of the nested loop
WelfarePair(k) == <<Regimes[((k - 1) % 2) + 1], BDP_LEVELS[((k - 1) \div 2) + 1]>>

WelfareColumns == {"real_cons_pc", "gini", "adoption", "unemployment"}

\* The mean and std of each column of w
welfare_aggs(w) == [c \in WelfareColumns |-> agg(Col(w, c))]

\* The statistics kept of a level; the _std fields hold std2
welfare_fields(bdp, a) ==
    [BDP |-> bdp,
     RealConsPc_mean |-> a["real_cons_pc"].mean,
     RealConsPc_std |-> a["real_cons_pc"].std,
     Gini_mean |-> a["gini"].mean,
     Gini_std |-> a["gini"].std,
     Adoption_mean |-> a["adoption"].mean,
     Unemployment_mean |-> a["unemployment"].mean]

\* w = compute_welfare(df, bdp) and its statistics
welfare_stats(df, bdp) == welfare_fields(bdp, welfare_aggs(compute_welfare(df, bdp)))

\* welfare_stats, computed once for each file content and level
welfare_table ==
    [p \in Catalogue \X Range(BDP_LEVELS) |-> welfare_stats(p[1], p[2])] @@ <<>>

\* The dictionary appended for one loaded file
welfare_entry(df, regime, bdp) ==
    [Regime |-> Upper(regime)] @@ welfare_table[<<df, bdp>>]

\* Mutant: the loop left at the first missing file (break for pass)
RECURSIVE welfare_loop_break(_, _, _)
welfare_loop_break(fs, start, k) ==
    IF k = 0 THEN start
    ELSE IF \E j \in 1..k : ~exists(fs, WelfarePair(j)[1], WelfarePair(j)[2])
         THEN welfare_loop_break(fs, start, k - 1)
         ELSE Append(welfare_loop_break(fs, start, k - 1),
                     welfare_entry(fs[WelfarePair(k)], WelfarePair(k)[1],
                                   WelfarePair(k)[2]))

\* The list welfare after the first k iterations of the loop over
\* BDP_LEVELS x [pln, eur]: a missing file appends nothing
RECURSIVE welfare_loop(_, _, _)
welfare_loop(fs, start, k) ==
    IF k = 0 THEN start
    ELSE LET sofar == welfare_loop(fs, start, k - 1)
             regime == WelfarePair(k)[1]
             bdp == WelfarePair(k)[2]
         IN  IF exists(fs, regime, bdp)
             THEN Append(sofar, welfare_entry(fs[<<regime, bdp>>], regime, bdp))
             ELSE sofar

\* wdf[wdf['Regime'] == label]
of_regime(wf, label) == SelectSeq(wf, LAMBDA e : e.Regime = label)

\* df[df['BDP'] == bdp]
at_level(df, bdp) == SelectSeq(df, LAMBDA e : e.BDP = bdp)

\* Lines 75-98: the aggregation loop, wdf and its split by regime.  With no file
\* at all wdf has no columns and wdf['Regime'] raises KeyError.
WelfareLoad ==
    /\ pc = "welfare:load"
    /\ welfare' = welfare_loop(term, welfare, 2 * NumLevels)
    /\ loads' = loads \o AsSeq([k \in 1..(2 * NumLevels) |->
                    [site |-> "welfare:79", regime |-> WelfarePair(k)[1],
                     bdp |-> WelfarePair(k)[2], kind |-> "terminal",
                     found |-> exists(term, WelfarePair(k)[1], WelfarePair(k)[2])]],
                    2 * NumLevels)
    /\ IF welfare' = <<>>
       THEN /\ pc' = "aborted"
            /\ error' = "KeyError: 'Regime'"
            /\ console' = console
       ELSE /\ pc' = "welfare:figure"
            /\ error' = error
            /\ console' = Append(console,
                   <<"Loaded welfare data", Len(of_regime(welfare', "PLN")),
                     Len(of_regime(welfare', "EUR"))>>)
    /\ UNCHANGED <<script, term, ts, data, means, figs, runs, prev, rowVars, aggVars>>

\* Lines 105-190: figure 1.  Panels A-C draw a regime unless its table is empty;
\* panel D draws the bars when both regimes have the level 2000.
WelfareFigure ==
    /\ pc = "welfare:figure"
    /\ LET pln == of_regime(welfare, "PLN")
           eur == of_regime(welfare, "EUR")
           bdp2k_pln == at_level(pln, 2000)
           bdp2k_eur == at_level(eur, 2000)
           bars == IF bdp2k_pln # <<>> /\ bdp2k_eur # <<>>
                   THEN <<bdp2k_pln[1], bdp2k_eur[1]>> ELSE <<>>
       IN  figs' = ("p02_welfare_comparison.png" :>
                       [series |-> <<pln, eur>>, bars |-> bars]) @@ figs
    /\ console' = Append(console, <<"Saved", "p02_welfare_comparison.png">>)
    /\ pc' = "welfare:summary"
    /\ UNCHANGED <<script, term, ts, loads, welfare, data, means, error, runs, prev,
                   rowVars, aggVars>>

\* The rows of the paired summary table: a level is printed when both regimes
\* have it
RECURSIVE welfare_rows(_, _, _)
welfare_rows(pln, eur, k) ==
    IF k = 0 THEN <<>>
    ELSE LET bdp == BDP_LEVELS[k]
             p == at_level(pln, bdp)
             e == at_level(eur, bdp)
             sofar == welfare_rows(pln, eur, k - 1)
         IN  IF p = <<>> \/ e = <<>> THEN sofar
             ELSE Append(sofar,
                    <<"row", bdp, p[1].RealConsPc_mean, p[1].Gini_mean,
                      e[1].RealConsPc_mean, e[1].Gini_mean,
                      RatSub(e[1].RealConsPc_mean, p[1].RealConsPc_mean),
                      RatSub(e[1].Gini_mean, p[1].Gini_mean)>>)

\* Lines 197-214: the summary table
WelfareSummary ==
    /\ pc = "welfare:summary"
    /\ console' = console
            \o <<<<"rule">>, <<"WELFARE COMPARISON">>, <<"rule">>, <<"header">>, <<"dash">>>>
            \o welfare_rows(of_regime(welfare, "PLN"), of_regime(welfare, "EUR"),
                            NumLevels)
    /\ pc' = "welfare:optimal"
    /\ UNCHANGED <<script, term, ts, loads, welfare, data, means, figs, error, runs,
                   prev, rowVars, aggVars>>

\* df.loc[df['RealConsPc_mean'].idxmax()] and the line printed for it; nothing for
\* an empty table
optimal_line(best, label) ==
    <<"Optimal BDP", label, best.BDP, best.RealConsPc_mean, best.Gini_mean>>

\* Mutant: the first row of the table taken for the best
optimal_lines_first(df, label) ==
    IF df = <<>> THEN <<>> ELSE <<optimal_line(df[1], label)>>

optimal_lines(df, label) ==
    IF df = <<>> THEN <<>>
    ELSE <<optimal_line(df[idxmax(Col(df, "RealConsPc_mean"))], label)>>

\* Lines 216-224: the optimal level of each regime, then "Done!"
WelfareOptimal ==
    /\ pc = "welfare:optimal"
    /\ console' = console
            \o optimal_lines(of_regime(welfare, "PLN"), "PLN")
            \o optimal_lines(of_regime(welfare, "EUR"), "EUR")
            \o <<<<"Done!">>>>
    /\ pc' = "done"
    /\ UNCHANGED <<script, term, ts, loads, welfare, data, means, figs, error, runs,
                   prev, rowVars, aggVars>>

----------------------------------------------------------------------------
(* regime_sweep.py *)

\* row.get('EffectiveBDP', bdp), then the fallback on a missing value
eff_bdp_of(r, bdp) ==
    LET got == IF "EffectiveBDP" \in DOMAIN r THEN r.EffectiveBDP ELSE <<bdp, 1>>
    IN  IF isna(got) THEN <<bdp, 1>> ELSE got

sweep_record(r, bdp) ==
    [BDP |-> bdp,
     Adoption |-> RatMul(Q(r.TotalAdoption), RatOfInt(100)),
     Inflation |-> RatMul(Q(r.Inflation), RatOfInt(100)),
     Unemployment |-> RatMul(Q(r.Unemployment), RatOfInt(100)),
     ExRate |-> Q(r.ExRate),
     RefRate |-> RatMul(Q(r.RefRate), RatOfInt(100)),
     NPL |-> RatMul(Q(r.NPL), RatOfInt(100)),
     EffectiveBDP |-> Q(eff_bdp_of(r, bdp))]

\* The records appended for one file
sweep_records(df, bdp) == AsSeq([i \in 1..Len(df) |-> sweep_record(df[i], bdp)], Len(df))

\* sweep_records, computed once for each file content and level
sweep_table ==
    [p \in (Catalogue \cup {FileD}) \X Range(BDP_LEVELS) |->
        sweep_records(p[1], p[2])] @@ <<>>

\* Mutant: a missing file skipped without the MISSING line
RECURSIVE load_sweep_silent(_, _, _)
load_sweep_silent(fs, regime, k) ==
    IF k = 0 THEN [rows |-> <<>>, notices |-> <<>>]
    ELSE IF ~exists(fs, regime, BDP_LEVELS[k]) THEN load_sweep_silent(fs, regime, k - 1)
         ELSE [rows |-> load_sweep_silent(fs, regime, k - 1).rows
                           \o sweep_table[<<fs[<<regime, BDP_LEVELS[k]>>], BDP_LEVELS[k]>>],
               notices |-> <<>>]

\* load_sweep(regime) over the first k levels: the rows, and the MISSING notices
RECURSIVE load_sweep(_, _, _)
load_sweep(fs, regime, k) ==
    IF k = 0 THEN [rows |-> <<>>, notices |-> <<>>]
    ELSE LET sofar == load_sweep(fs, regime, k - 1)
             bdp == BDP_LEVELS[k]
             df == fs[<<regime, bdp>>]
         IN  IF ~exists(fs, regime, bdp)
             THEN [rows |-> sofar.rows,
                   notices |-> Append(sofar.notices, <<"MISSING", regime, bdp>>)]
             ELSE [rows |-> sofar.rows \o sweep_table[<<df, bdp>>],
                   notices |-> sofar.notices]

\* Lines 51-57: data_<regime> = load_sweep(regime), between two progress lines
SweepLoad(regime, next) ==
    /\ pc = "sweep:load_" \o regime
    /\ \E got \in {load_sweep(term, regime, NumLevels)} :
           /\ data' = [data EXCEPT ![regime] = got.rows]
           /\ console' = console \o <<<<"Loading sweep", Upper(regime)>>>>
                                 \o got.notices
                                 \o <<<<"datapoints", Len(got.rows)>>>>
    /\ loads' = loads \o AsSeq([k \in 1..NumLevels |->
                    [site |-> "sweep:31", regime |-> regime, bdp |-> BDP_LEVELS[k],
                     kind |-> "terminal", found |-> exists(term, regime, BDP_LEVELS[k])]],
                    NumLevels)
    /\ pc' = next
    /\ UNCHANGED <<script, term, ts, welfare, means, figs, error, runs, prev, rowVars, aggVars>>

SweepLoadPln == SweepLoad("pln", "sweep:load_eur")

SweepLoadEur == SweepLoad("eur", "sweep:bifurcation")

SweepFields ==
    {"Adoption", "Inflation", "Unemployment", "ExRate", "RefRate", "NPL", "EffectiveBDP"}

\* The columns a level of a loaded regime can hold, in any order of its rows
LevelColumns ==
    UNION {{Col(shuffle(sweep_table[<<df, b>>], p), c) : p \in Orders(Len(df))} :
              df \in Catalogue \cup {FileD}, b \in Range(BDP_LEVELS), c \in SweepFields}

\* agg, computed once for each column
agg_table == [xs \in LevelColumns |-> agg(xs)] @@ <<>>

\* data.groupby('BDP')[col].agg(['mean', 'std']): one row per level that has data,
\* by ascending level
groupby_agg(d, col) ==
    LET levels == SelectSeq(BDP_LEVELS, LAMBDA b : at_level(d, b) # <<>>)
    IN  AsSeq([i \in 1..Len(levels) |->
                  [BDP |-> levels[i]]
                      @@ agg_table[Col(at_level(d, levels[i]), col)]], Len(levels))

value_at(table, bdp) == at_level(table, bdp)[1]

\* The label at position k of the index; -1 when k is no position
label_at(stds, k) == IF k = 0 THEN -1 ELSE stds[k].BDP

\* Mutant: the first level that has a standard deviation, whatever its size
critical_of_first(stds) ==
    label_at(stds, IF idxmax(Col(stds, "std")) = 0 THEN 0
                   ELSE CHOOSE i \in 1..Len(stds) :
                            /\ ~RatIsNaN(stds[i].std)
                            /\ \A j \in 1..(i - 1) : RatIsNaN(stds[j].std))

\* stds.idxmax() on data.groupby('BDP')['Adoption'].std(): the level, or -1 when
\* every std is NaN (idxmax then returns NaN or raises, by pandas version, and
\* stds[cp] raises on NaN: the run ends either way)
critical_of(stds) == label_at(stds, idxmax(Col(stds, "std")))

critical_point(d) == critical_of(groupby_agg(d, "Adoption"))

SweepColumns == <<"Adoption", "Inflation", "Unemployment">>

\* The tables plot_bifurcation draws for a regime; nothing for an empty one
bifurcation_tables(d) ==
    IF d = <<>> THEN <<>>
    ELSE [c \in Range(SweepColumns) |-> groupby_agg(d, c)]

\* Panel C: the critical point of each regime that has data, -1 where it fails
panel_c(d) ==
    [r \in Range(Regimes) |-> IF d[r] = <<>> THEN -1 ELSE critical_point(d[r])]

\* Lines 64-118: figure 1.  plot_bifurcation for three columns, then panel C with
\* the critical point of each regime that has data.
SweepBifurcation ==
    /\ pc = "sweep:bifurcation"
    /\ means' = [r \in Range(Regimes) |-> bifurcation_tables(data[r])]
    /\ \E cp \in {panel_c(data)} :
           IF \E r \in Range(Regimes) : data[r] # <<>> /\ cp[r] = -1
           THEN /\ pc' = "aborted"
                /\ error' = "idxmax of an all-NaN series"
                /\ UNCHANGED <<figs, console>>
           ELSE /\ pc' = "sweep:difference"
                /\ figs' = ("p02_bifurcation_comparison.png" :>
                               [tables |-> means', critical |-> cp]) @@ figs
                /\ console' = Append(console,
                                     <<"Saved", "p02_bifurcation_comparison.png">>)
                /\ error' = error
    /\ UNCHANGED <<script, term, ts, loads, welfare, data, runs, prev, rowVars, aggVars>>

\* common = m_pln.index.intersection(m_eur.index) and m_eur[common] - m_pln[common]
paired_bars(m_pln, m_eur) ==
    LET common == SelectSeq(Col(m_pln, "BDP"), LAMBDA b : at_level(m_eur, b) # <<>>)
    IN  AsSeq([i \in 1..Len(common) |->
                  [BDP |-> common[i],
                   diff |-> RatSub(value_at(m_eur, common[i]).mean,
                                   value_at(m_pln, common[i]).mean)]], Len(common))

\* The bars of one panel of figure 2: m_eur - m_pln on the levels of both
difference_bars(d_pln, d_eur, col) ==
    IF d_pln = <<>> \/ d_eur = <<>> THEN <<>>
    ELSE paired_bars(groupby_agg(d_pln, col), groupby_agg(d_eur, col))

\* Lines 126-151: figure 2
SweepDifference ==
    /\ pc = "sweep:difference"
    /\ figs' = ("p02_regime_difference.png" :>
                   [c \in Range(SweepColumns) |->
                       difference_bars(data["pln"], data["eur"], c)]) @@ figs
    /\ console' = Append(console, <<"Saved", "p02_regime_difference.png">>)
    /\ pc' = "sweep:summary"
    /\ UNCHANGED <<script, term, ts, loads, welfare, data, means, error, runs, prev,
                   rowVars, aggVars>>

\* sub[col].mean() and sub[col].std() for the columns of the rows of one level
level_stats(sub) == [c \in SweepFields |-> agg_table[Col(sub, c)]]

summary_row(bdp, p, e) ==
    <<"row", bdp, p["Adoption"].mean, p["Adoption"].std,
      e["Adoption"].mean, e["Adoption"].std,
      p["Inflation"].mean, e["Inflation"].mean,
      p["Unemployment"].mean, e["Unemployment"].mean,
      e["EffectiveBDP"].mean>>

\* The rows of the paired summary table
RECURSIVE sweep_rows(_, _, _)
sweep_rows(d_pln, d_eur, k) ==
    IF k = 0 THEN <<>>
    ELSE LET bdp == BDP_LEVELS[k]
             pln_sub == at_level(d_pln, bdp)
             eur_sub == at_level(d_eur, bdp)
             sofar == sweep_rows(d_pln, d_eur, k - 1)
         IN  IF pln_sub = <<>> \/ eur_sub = <<>> THEN sofar
             ELSE Append(sofar,
                         summary_row(bdp, level_stats(pln_sub), level_stats(eur_sub)))

\* Lines 158-178: the summary table.  A regime with no row at all is a DataFrame
\* without columns, and data['BDP'] raises KeyError in the first iteration.
SweepSummary ==
    /\ pc = "sweep:summary"
    /\ LET header == <<<<"rule">>, <<"SWEEP COMPARISON SUMMARY">>, <<"rule">>,
                       <<"header">>, <<"dash">>>>
       IN  IF data["pln"] = <<>> \/ data["eur"] = <<>>
           THEN /\ console' = console \o header
                /\ pc' = "aborted"
                /\ error' = "KeyError: 'BDP'"
           ELSE /\ console' = console \o header
                                \o sweep_rows(data["pln"], data["eur"], NumLevels)
                /\ pc' = "sweep:critical"
                /\ error' = error
    /\ UNCHANGED <<script, term, ts, loads, welfare, data, means, figs, runs, prev,
                   rowVars, aggVars>>

\* The line printed for a critical point cp; <<"raise">> where stds[cp] fails
critical_line(stds, cp, label) ==
    IF cp = -1 THEN <<"raise">>
    ELSE <<"Critical point", label, cp, value_at(stds, cp).std>>

critical_report(stds, label) == critical_line(stds, critical_of(stds), label)

critical_lines(d, label) ==
    IF d = <<>> THEN <<>>
    ELSE <<critical_report(groupby_agg(d, "Adoption"), label)>>

\* The lines printed up to the first failure, or all of them
RECURSIVE printed(_)
printed(lines) ==
    IF lines = <<>> \/ lines[1] = <<"raise">> THEN <<>>
    ELSE <<lines[1]>> \o printed(Tail(lines))

\* Lines 180-188: the critical point of each regime, then "Done!"
SweepCritical ==
    /\ pc = "sweep:critical"
    /\ \E lines \in {critical_lines(data["pln"], "PLN")
                         \o critical_lines(data["eur"], "EUR")} :
           IF \E i \in 1..Len(lines) : lines[i] = <<"raise">>
           THEN /\ pc' = "aborted"
                /\ error' = "idxmax of an all-NaN series"
                /\ console' = console \o printed(lines)
           ELSE /\ pc' = "done"
                /\ error' = error
                /\ console' = console \o lines \o <<<<"Done!">>>>
    /\ UNCHANGED <<script, term, ts, loads, welfare, data, means, figs, runs, prev,
                   rowVars, aggVars>>

----------------------------------------------------------------------------
(* regime_charts.py *)

\* try: load(pln); load(eur) -- the files tried, in order: the EUR file is tried
\* only when the PLN file was found
try_both(present, site, kind, bdp) ==
    LET first == [site |-> site, regime |-> "pln", bdp |-> bdp, kind |-> kind,
                  found |-> <<"pln", bdp>> \in present]
        second == [site |-> site, regime |-> "eur", bdp |-> bdp, kind |-> kind,
                   found |-> <<"eur", bdp>> \in present]
    IN  IF first.found THEN <<first, second>> ELSE <<first>>

\* The file whose absence raised FileNotFoundError, <<>> if both were read
missing_of(tried) == SelectSeq(tried, LAMBDA t : ~t.found)

\* Figure 1 over the first k levels of BDP_SHOW: a level is drawn when both
\* time series were read; otherwise a notice is printed and the level skipped
RECURSIVE timeseries_panels(_, _)
timeseries_panels(present, k) ==
    IF k = 0 THEN [tried |-> <<>>, notices |-> <<>>, drawn |-> <<>>]
    ELSE LET sofar == timeseries_panels(present, k - 1)
             bdp == BDP_SHOW[k]
             tried == try_both(present, "charts:56", "timeseries", bdp)
             lost == missing_of(tried)
         IN  IF lost # <<>>
             THEN [tried |-> sofar.tried \o tried,
                   notices |-> Append(sofar.notices,
                                      <<"Missing data for BDP", bdp, lost[1].regime>>),
                   drawn |-> sofar.drawn]
             ELSE [tried |-> sofar.tried \o tried,
                   notices |-> sofar.notices,
                   drawn |-> Append(sofar.drawn, bdp)]

\* Lines 52-100: figure 1
ChartsTimeseries ==
    /\ pc = "charts:timeseries"
    /\ LET got == timeseries_panels(ts, Len(BDP_SHOW))
       IN  /\ loads' = loads \o got.tried
           /\ console' = console \o got.notices
                                 \o <<<<"Saved", "p02_regime_timeseries.png">>>>
           /\ figs' = ("p02_regime_timeseries.png" :> got.drawn) @@ figs
    /\ pc' = "charts:detail"
    /\ UNCHANGED <<script, term, ts, welfare, data, means, error, runs, prev, rowVars, aggVars>>

\* Lines 107-150: figure 2, saved only when both time series of level 2000 were read
ChartsDetail ==
    /\ pc = "charts:detail"
    /\ LET tried == try_both(ts, "charts:121", "timeseries", 2000)
           lost == missing_of(tried)
       IN  /\ loads' = loads \o tried
           /\ IF lost # <<>>
              THEN /\ console' = Append(console,
                                        <<"Skipping detail panel", lost[1].regime>>)
                   /\ figs' = figs
              ELSE /\ console' = Append(console, <<"Saved", "p02_regime_detail.png">>)
                   /\ figs' = ("p02_regime_detail.png" :> <<2000>>) @@ figs
    /\ pc' = "charts:phasespace"
    /\ UNCHANGED <<script, term, ts, welfare, data, means, error, runs, prev, rowVars, aggVars>>

scatter(df) ==
    AsSeq([i \in 1..Len(df) |->
              <<RatMul(Q(df[i].TotalAdoption), RatOfInt(100)),
                RatMul(Q(df[i].Inflation), RatOfInt(100))>>], Len(df))

\* scatter, computed once for each file content of the catalogue
scattered == [df \in Catalogue |-> scatter(df)] @@ <<>>

\* Figure 3 over the first k levels of BDP_SHOW: a level is drawn when both
\* terminal files were read; otherwise it is passed over
RECURSIVE phasespace_panels(_, _)
phasespace_panels(fs, k) ==
    IF k = 0 THEN [tried |-> <<>>, drawn |-> <<>>]
    ELSE LET sofar == phasespace_panels(fs, k - 1)
             bdp == BDP_SHOW[k]
             tried == try_both(DOMAIN fs, "charts:162", "terminal", bdp)
         IN  IF missing_of(tried) # <<>>
             THEN [tried |-> sofar.tried \o tried, drawn |-> sofar.drawn]
             ELSE [tried |-> sofar.tried \o tried,
                   drawn |-> Append(sofar.drawn,
                                    [BDP |-> bdp,
                                     pln |-> scattered[fs[<<"pln", bdp>>]],
                                     eur |-> scattered[fs[<<"eur", bdp>>]]])]

\* Lines 157-185: figure 3
ChartsPhaseSpace ==
    /\ pc = "charts:phasespace"
    /\ LET got == phasespace_panels(term, Len(BDP_SHOW))
       IN  /\ loads' = loads \o got.tried
           /\ figs' = ("p02_regime_phasespace.png" :> got.drawn) @@ figs
    /\ console' = Append(console, <<"Saved", "p02_regime_phasespace.png">>)
    /\ pc' = "charts:summary"
    /\ UNCHANGED <<script, term, ts, welfare, data, means, error, runs, prev, rowVars, aggVars>>

ChartsPair(k) == <<Regimes[((k - 1) % 2) + 1], BDP_SHOW[((k - 1) \div 2) + 1]>>

\* x.mean() * 100 and x.std() * 100 (the latter as its square)
percent_mean(df, name) ==
    RatMul(mean(AsSeq([i \in 1..Len(df) |-> Q(df[i][name])], Len(df))), RatOfInt(100))

percent_std(df, name) ==
    RatMul(std2(AsSeq([i \in 1..Len(df) |-> Q(df[i][name])], Len(df))), RatOfInt(10000))

\* The eight statistics printed for a file
describe(df) ==
    <<percent_mean(df, "TotalAdoption"), percent_std(df, "TotalAdoption"),
      percent_mean(df, "Inflation"), percent_std(df, "Inflation"),
      percent_mean(df, "Unemployment"), percent_std(df, "Unemployment"),
      mean(AsSeq([i \in 1..Len(df) |-> Q(df[i].ExRate)], Len(df))),
      percent_mean(df, "RefRate")>>

\* describe, computed once for each file content of the catalogue
described == [df \in Catalogue |-> describe(df)] @@ <<>>

\* One line of the summary table: the statistics of a file, or "(missing)"
summary_line(fs, regime, bdp) ==
    IF ~exists(fs, regime, bdp) THEN <<"(missing)", bdp, regime>>
    ELSE <<"row", bdp, regime>> \o described[fs[<<regime, bdp>>]]

\* Lines 192-212: the summary table, then "Done!"
ChartsSummary ==
    /\ pc = "charts:summary"
    /\ LET n == 2 * Len(BDP_SHOW)
       IN  /\ loads' = loads \o AsSeq([k \in 1..n |->
                          [site |-> "charts:202", regime |-> ChartsPair(k)[1],
                           bdp |-> ChartsPair(k)[2], kind |-> "terminal",
                           found |-> exists(term, ChartsPair(k)[1], ChartsPair(k)[2])]],
                          n)
           /\ console' = console
                  \o <<<<"rule">>, <<"REGIME COMPARISON SUMMARY">>, <<"rule">>,
                       <<"header">>, <<"dash">>>>
                  \o AsSeq([k \in 1..n |->
                               summary_line(term, ChartsPair(k)[1], ChartsPair(k)[2])], n)
                  \o <<<<"Done!">>>>
    /\ pc' = "done"
    /\ UNCHANGED <<script, term, ts, welfare, data, means, figs, error, runs, prev,
                   rowVars, aggVars>>

----------------------------------------------------------------------------
(* Running a script: python regime_<script>.py, possibly again *)

Scripts == {"welfare", "sweep", "charts"}

\* How many times a script is started
MaxRuns == 2

FirstStage(s) ==
    CASE s = "welfare" -> "welfare:load"
      [] s = "sweep" -> "sweep:load_pln"
      [] s = "charts" -> "charts:timeseries"

\* The memory of a process that has just started: welfare = [] (regime_welfare.py,
\* line 75), no data loaded, nothing printed
fresh_memory ==
    [welfare |-> <<>>,
     data |-> [r \in Range(Regimes) |-> <<>>],
     means |-> <<>>]

\* Mutant: the lists of the earlier run are still there when the script starts
process_start_stale(earlier) == earlier

\* What a run starts from, whatever an earlier run held in memory: every run is a
\* new process
process_start(earlier) == fresh_memory

SweepPaths == Range(Regimes) \X Range(BDP_LEVELS)

ChartsPaths == Range(Regimes) \X Range(BDP_SHOW)

\* The file system a run finds: any subset of the files its script looks for
Disk ==
    IF script = "charts"
    THEN /\ ts \in SUBSET ChartsPaths
         /\ \E present \in SUBSET ChartsPaths : term \in [present -> {FileA}]
    ELSE /\ ts = {}
         /\ \E present \in SUBSET SweepPaths : term \in [present -> Catalogue]

NoRow ==
    /\ row = <<>>
    /\ bdp_amount = 0
    /\ wrec = <<>>
    /\ wpc = "none"
    /\ srec = <<>>

NoAgg ==
    /\ apc = "none"
    /\ loaded = <<>>
    /\ shuffled = <<>>
    /\ stats = <<>>

Init ==
    /\ script \in Scripts
    /\ Disk
    /\ pc = FirstStage(script)
    /\ console = <<>>
    /\ loads = <<>>
    /\ welfare = fresh_memory.welfare
    /\ data = fresh_memory.data
    /\ means = fresh_memory.means
    /\ figs = <<>>
    /\ error = ""
    /\ runs = 1
    /\ prev = <<>>
    /\ NoRow
    /\ NoAgg

\* The script is started again on the same disk; the figures directory keeps the
\* files of the earlier run
Rerun ==
    /\ pc \in {"done", "aborted"}
    /\ runs < MaxRuns
    /\ prev' = [pc |-> pc, console |-> console, loads |-> loads, welfare |-> welfare,
                data |-> data, means |-> means, figs |-> figs, error |-> error]
    /\ runs' = runs + 1
    /\ pc' = FirstStage(script)
    /\ console' = <<>>
    /\ loads' = <<>>
    /\ \E memory \in {process_start([welfare |-> welfare, data |-> data,
                                      means |-> means])} :
           /\ welfare' = memory.welfare
           /\ data' = memory.data
           /\ means' = memory.means
    /\ error' = ""
    /\ UNCHANGED <<script, term, ts, figs, rowVars, aggVars>>

Next ==
    \/ WelfareLoad
    \/ WelfareFigure
    \/ WelfareSummary
    \/ WelfareOptimal
    \/ SweepLoadPln
    \/ SweepLoadEur
    \/ SweepBifurcation
    \/ SweepDifference
    \/ SweepSummary
    \/ SweepCritical
    \/ ChartsTimeseries
    \/ ChartsDetail
    \/ ChartsPhaseSpace
    \/ ChartsSummary
    \/ Rerun

Spec == Init /\ [][Next]_vars

----------------------------------------------------------------------------
(* The aggregations on records read in one order and in another *)

\* The levels of the regime whose records are shuffled
AggLevels == SubSeq(BDP_LEVELS, 1, 2)

AggPaths == {"pln"} \X Range(AggLevels)

AggCatalogue == {FileA, FileC, FileD}

AggInit ==
    /\ script = "none"
    /\ term \in [AggPaths -> AggCatalogue]
    /\ ts = {}
    /\ pc = "none"
    /\ console = <<>>
    /\ loads = <<>>
    /\ welfare = <<>>
    /\ data = <<>>
    /\ means = <<>>
    /\ figs = <<>>
    /\ error = ""
    /\ runs = 0
    /\ prev = <<>>
    /\ NoRow
    /\ apc = "sweep:load"
    /\ loaded = <<>>
    /\ shuffled = <<>>
    /\ stats = <<>>

\* regime_sweep.py: data_pln as load_sweep returns it, and in any other row order
ShuffleSweep ==
    /\ apc = "sweep:load"
    /\ \E d \in {load_sweep(term, "pln", Len(AggLevels)).rows} :
           \E p \in Orders(Len(d)) :
               /\ loaded' = d
               /\ shuffled' = shuffle(d, p)
    /\ apc' = "sweep:groupby"
    /\ UNCHANGED <<stats, runVars, rowVars>>

\* regime_sweep.py, line 72: the groupby tables of both
GroupSweep ==
    /\ apc = "sweep:groupby"
    /\ stats' = [loaded |-> bifurcation_tables(loaded),
                 shuffled |-> bifurcation_tables(shuffled)]
    /\ apc' = "welfare:load"
    /\ UNCHANGED <<loaded, shuffled, runVars, rowVars>>

\* regime_welfare.py, line 78: df of one level, and in any other row order
ShuffleFile ==
    /\ apc = "welfare:load"
    /\ \E b \in Range(AggLevels) :
           \E p \in Orders(Len(term[<<"pln", b>>])) :
               /\ loaded' = [BDP |-> b, df |-> term[<<"pln", b>>]]
               /\ shuffled' = [BDP |-> b, df |-> shuffle(term[<<"pln", b>>], p)]
    /\ apc' = "welfare:aggregate"
    /\ UNCHANGED <<stats, runVars, rowVars>>

\* regime_welfare.py, lines 79-90: the welfare statistics of both
AggregateWelfare ==
    /\ apc = "welfare:aggregate"
    /\ stats' = [loaded |-> welfare_stats(loaded.df, loaded.BDP),
                 shuffled |-> welfare_stats(shuffled.df, shuffled.BDP)]
    /\ apc' = "done"
    /\ UNCHANGED <<loaded, shuffled, runVars, rowVars>>

AggNext == ShuffleSweep \/ GroupSweep \/ ShuffleFile \/ AggregateWelfare

SpecAgg == AggInit /\ [][AggNext]_vars

----------------------------------------------------------------------------
(* compute_welfare on one terminal-state row drawn from a bounded set *)

UnemploymentValues ==
    {<<0, 1>>, <<1, 10>>, <<1, 3>>, <<1, 1>>, <<4, 3>>, <<199999, 200000>>}

WageValues == {<<0, 1>>, <<3000, 1>>, <<-3000, 1>>}

PriceValues == {<<1, 1>>, <<1, 200>>, <<5, 4>>, <<0, 1>>}

EffectiveBDPValues == {NaN, <<2000, 1>>, <<0, 1>>, <<1500, 1>>}

AdoptionValues == {<<1, 4>>, <<0, 1>>}

NominalValues == {0, 2000}

RowsWithoutEffectiveBDP ==
    [Unemployment : UnemploymentValues, MarketWage : WageValues,
     PriceLevel : PriceValues, TotalAdoption : AdoptionValues]

RowsWithEffectiveBDP ==
    [Unemployment : UnemploymentValues, MarketWage : WageValues,
     PriceLevel : PriceValues, TotalAdoption : AdoptionValues,
     EffectiveBDP : EffectiveBDPValues]

\* No script runs while compute_welfare is exercised on its own
NoRun ==
    /\ script = "none"
    /\ term = <<>>
    /\ ts = {}
    /\ pc = "none"
    /\ console = <<>>
    /\ loads = <<>>
    /\ welfare = <<>>
    /\ data = <<>>
    /\ means = <<>>
    /\ figs = <<>>
    /\ error = ""
    /\ runs = 0
    /\ prev = <<>>

RowInit ==
    /\ NoRun
    /\ NoAgg
    /\ row \in RowsWithoutEffectiveBDP \cup RowsWithEffectiveBDP
    /\ bdp_amount \in NominalValues
    /\ wrec = <<>>
    /\ wpc = "ready"
    /\ srec = <<>>

ComputeWelfareRow ==
    /\ wpc = "ready"
    /\ wrec' = welfare_row(row, bdp_amount)
    /\ wpc' = "done"
    /\ UNCHANGED <<row, bdp_amount, srec, runVars, aggVars>>

\* The row as regime_sweep.py reads it from the same file: the columns load_sweep
\* uses besides those of compute_welfare
terminal_row(r) ==
    r @@ [Inflation |-> <<2, 100>>, ExRate |-> <<43, 10>>, RefRate |-> <<5, 100>>,
          NPL |-> <<3, 100>>]

\* regime_sweep.py, lines 35-48: one iteration of load_sweep's loop over the rows
LoadSweepRow ==
    /\ wpc \in {"ready", "done"}
    /\ srec = <<>>
    /\ srec' = sweep_record(terminal_row(row), bdp_amount)
    /\ UNCHANGED <<row, bdp_amount, wrec, wpc, runVars, aggVars>>

RowNext == ComputeWelfareRow \/ LoadSweepRow

SpecRow == RowInit /\ [][RowNext]_vars

----------------------------------------------------------------------------
(* Properties of compute_welfare (checked under SpecRow) *)

\* n is x / d truncated toward zero (d > 0)
TruncatesTowardZero(n, x, d) ==
    IF x >= 0 THEN n >= 0 /\ n * d <= x /\ x < (n + 1) * d
              ELSE n <= 0 /\ n * d >= x /\ x > (n - 1) * d

\* Both classes have members and total income is positive
ValidSplit == wrec.n_emp > 0 /\ wrec.n_unemp > 0 /\ RatSign(wrec.total_income) > 0

ScenarioRow ==
    /\ row.Unemployment = <<1, 10>>
    /\ row.MarketWage = <<3000, 1>>
    /\ row.PriceLevel = <<1, 1>>
    /\ RatEq(wrec.actual_bdp, RatOfInt(2000))

\* C5: real consumption per capita is
\*   (n_emp * (wage + transfer) + n_unemp * transfer) * MPC / max(0.01, price) / POPULATION
\* with n_emp = (1 - unemployment) * POPULATION truncated toward zero and n_unemp the
\* remainder (stated division-free: rc * max(0.01, price) * POPULATION = income * MPC);
\* and the scenario u = 0.10, wage 3000, transfer 2000, price 1.0 gives
\* n_emp = 90000, n_unemp = 10000, total income 470,000,000, rc = 3854.
C5_RealConsumption ==
    wpc = "done" =>
        LET u == row.Unemployment
            wage == Q(row.MarketWage)
            transfer == wrec.actual_bdp
            p == Q(row.PriceLevel)
            floored == IF RatLt(p, Rat(1, 100)) THEN Rat(1, 100) ELSE p
            income == RatAdd(RatMul(RatOfInt(wrec.n_emp), RatAdd(wage, transfer)),
                             RatMul(RatOfInt(wrec.n_unemp), transfer))
        IN  /\ TruncatesTowardZero(wrec.n_emp, (u[2] - u[1]) * POPULATION, u[2])
            /\ wrec.n_unemp = POPULATION - wrec.n_emp
            /\ RatEq(RatMul(RatMul(wrec.real_cons_pc, floored), RatOfInt(POPULATION)),
                     RatMul(income, Rat(82, 100)))
            /\ ScenarioRow =>
                   /\ wrec.n_emp = 90000
                   /\ wrec.n_unemp = 10000
                   /\ RatEq(wrec.total_income, RatOfInt(470000000))
                   /\ RatEq(wrec.real_cons_pc, RatOfInt(3854))

C5_Witness ==
    /\ wpc = "done"
    /\ ScenarioRow
    /\ RatEq(wrec.real_cons_pc, RatOfInt(3854))

\* C6 as claimed: for a valid two-class split (both classes non-empty, total income
\* positive) the Gini coefficient lies in [0, 1].
C6_GiniInUnitInterval_AsClaimed ==
    (wpc = "done" /\ ValidSplit) =>
        RatLe(RatOfInt(0), wrec.gini) /\ RatLe(wrec.gini, RatOfInt(1))

\* C6 amended: for a valid two-class split the Gini coefficient is >= 0, and it is
\* <= 1 when the wage and the transfer are both non-negative.
C6_GiniInUnitInterval ==
    (wpc = "done" /\ ValidSplit) =>
        /\ RatLe(RatOfInt(0), wrec.gini)
        /\ (RatSign(Q(row.MarketWage)) >= 0 /\ RatSign(wrec.actual_bdp) >= 0)
               => RatLe(wrec.gini, RatOfInt(1))

C6_Witness ==
    /\ wpc = "done"
    /\ ValidSplit
    /\ RatSign(Q(row.MarketWage)) > 0
    /\ RatSign(wrec.actual_bdp) > 0
    /\ RatLt(RatOfInt(0), wrec.gini)
    /\ RatLt(wrec.gini, RatOfInt(1))

\* C7: the employed and the unemployed count sum to POPULATION exactly.
C7_SplitSumsToPopulation ==
    wpc = "done" => wrec.n_emp + wrec.n_unemp = POPULATION

C7_Witness ==
    /\ wpc = "done"
    /\ row.Unemployment = <<1, 3>>
    /\ wrec.n_emp = 66666
    /\ wrec.n_unemp = 33334

\* C10: Gini = n_emp * n_unemp * |y_emp - y_unemp| / (POPULATION * total_income) when
\* total income is positive and both classes have members (stated division-free),
\* and exactly 0 otherwise (a class with a non-positive count has no members).
C10_GiniFormula ==
    wpc = "done" =>
        IF ValidSplit
        THEN RatEq(RatMul(wrec.gini, RatMul(RatOfInt(POPULATION), wrec.total_income)),
                   RatMul(RatMul(RatOfInt(wrec.n_emp), RatOfInt(wrec.n_unemp)),
                          RatAbs(RatSub(wrec.y_emp, wrec.y_unemp))))
        ELSE wrec.gini = Rat(0, 1)

C10_Witness ==
    /\ wpc = "done"
    /\ ValidSplit
    /\ RatSign(Q(row.MarketWage)) < 0
    /\ RatSign(wrec.gini) > 0

----------------------------------------------------------------------------
(* The runs of the three scripts over every set of present files *)

Printed(line) == \E i \in DOMAIN console : console[i] = line

\* The levels of which regime holds a loaded file
Loaded(regime) == {b \in Range(BDP_LEVELS) : exists(term, regime, b)}

\* The exceptions raised on a table that has no columns because no file was read
AbsentDataErrors == {"KeyError: 'Regime'", "KeyError: 'BDP'"}

\* Where a run is ended by absent data: regime_welfare.py with no file at all,
\* regime_sweep.py with a regime that has no file; regime_charts.py never is
C1_FatalWhenARegimeIsEmpty ==
    /\ (pc = "aborted" /\ error \in AbsentDataErrors) =>
           \/ script = "welfare" /\ term = <<>>
           \/ script = "sweep" /\ \E r \in Range(Regimes) : Loaded(r) = {}
    /\ (script = "welfare" /\ term = <<>> /\ pc # "welfare:load") => pc = "aborted"
    /\ (script = "sweep" /\ pc = "done") => \A r \in Range(Regimes) : Loaded(r) # {}
    /\ script = "charts" => pc # "aborted"

\* C1: a missing input file is never fatal: whatever subset of the expected files
\* is present, the empty one and a regime without any file included, no run is
\* ended by the absence of data (every run goes on to its "Done!" line).
C1_MissingFileNeverFatal == ~(pc = "aborted" /\ error \in AbsentDataErrors)

\* The welfare list without the entry of a (regime, level)
welfare_without(wf, path) ==
    SelectSeq(wf, LAMBDA e : ~(e.Regime = Upper(path[1]) /\ e.BDP = path[2]))

\* The rows or the table rows of regime r without those of a (regime, level)
rows_without(d, r, path) ==
    IF r = path[1] THEN SelectSeq(d, LAMBDA e : e.BDP # path[2]) ELSE d

table_of(tables, col) == IF tables = <<>> THEN <<>> ELSE tables[col]

\* The disk with the file of path present, holding df
with_file(fs, path, df) == (path :> df) @@ fs

MissingFileFrameWelfare ==
    (script = "welfare" /\ pc # "welfare:load") =>
        \A path \in SweepPaths \ DOMAIN term :
            /\ welfare_without(welfare, path) = welfare
            /\ \A df \in Catalogue :
                   welfare_without(welfare_loop(with_file(term, path, df), <<>>,
                                                2 * NumLevels), path) = welfare

MissingFileFrameSweep ==
    (script = "sweep" /\ pc \notin {"sweep:load_pln", "sweep:load_eur"}) =>
        \A path \in SweepPaths \ DOMAIN term :
            \A r \in Range(Regimes) :
                /\ rows_without(data[r], r, path) = data[r]
                /\ \A df \in Catalogue :
                       \E rows \in {load_sweep(with_file(term, path, df), r,
                                               NumLevels).rows} :
                           /\ rows_without(rows, r, path) = data[r]
                           /\ \A c \in Range(SweepColumns) :
                                  means # <<>> =>
                                      rows_without(groupby_agg(rows, c), r, path)
                                          = table_of(means[r], c)

\* C2: for any set of present files and any (level L, regime R) whose terminal file
\* is absent, the aggregate tables of the welfare and sweep pipelines hold no entry
\* for (L, R), and every other entry is what it is when the file of (L, R) is
\* present, whatever that file holds.
C2_MissingFileOmitsOnlyItsEntry == MissingFileFrameWelfare /\ MissingFileFrameSweep

\* A welfare run that lost only the first file of the loop and kept the later ones
C2_Witness ==
    /\ script = "welfare"
    /\ pc = "done"
    /\ DOMAIN term = SweepPaths \ {<<"pln", BDP_LEVELS[1]>>}
    /\ Len(welfare) = 2 * NumLevels - 1
    /\ welfare[1].Regime = "EUR"

\* The load sites that print when the file is missing, and those that pass
LoggingSites == {"sweep:31", "charts:56", "charts:121", "charts:202"}

SilentSites == {"welfare:79", "charts:162"}

\* The line each logging site prints for a missing file
notice_of(l) ==
    CASE l.site = "sweep:31" -> <<"MISSING", l.regime, l.bdp>>
      [] l.site = "charts:56" -> <<"Missing data for BDP", l.bdp, l.regime>>
      [] l.site = "charts:121" -> <<"Skipping detail panel", l.regime>>
      [] l.site = "charts:202" -> <<"(missing)", l.bdp, l.regime>>

\* The lines that report a file of the kind of l as missing
NoticesAbout(l) ==
    IF l.kind = "terminal"
    THEN {<<"MISSING", l.regime, l.bdp>>, <<"(missing)", l.bdp, l.regime>>}
    ELSE {<<"Missing data for BDP", l.bdp, l.regime>>,
          <<"Skipping detail panel", l.regime>>}

\* The data point of a failed load is in no table and no figure of its site
Skipped(l) ==
    CASE l.site = "welfare:79" ->
             \A i \in DOMAIN welfare :
                 ~(welfare[i].Regime = Upper(l.regime) /\ welfare[i].BDP = l.bdp)
      [] l.site = "sweep:31" ->
             \A i \in DOMAIN data[l.regime] : data[l.regime][i].BDP # l.bdp
      [] l.site = "charts:56" ->
             \A i \in DOMAIN figs["p02_regime_timeseries.png"] :
                 figs["p02_regime_timeseries.png"][i] # l.bdp
      [] l.site = "charts:121" -> "p02_regime_detail.png" \notin DOMAIN figs
      [] l.site = "charts:162" ->
             \A i \in DOMAIN figs["p02_regime_phasespace.png"] :
                 figs["p02_regime_phasespace.png"][i].BDP # l.bdp
      [] l.site = "charts:202" ->
             \A i \in DOMAIN console :
                 ~(console[i][1] = "row" /\ console[i][2] = l.bdp
                   /\ console[i][3] = l.regime)

\* The file of a failed load is asked for once at its site: no second attempt
TriedOnce(i) ==
    \A j \in DOMAIN loads :
        (loads[j].site = loads[i].site /\ loads[j].regime = loads[i].regime
         /\ loads[j].bdp = loads[i].bdp) => j = i

\* Every file asked for is a file of the results tree: no other path is tried
ExpectedPath(l) ==
    /\ l.regime \in Range(Regimes)
    /\ l.bdp \in Range(BDP_LEVELS) \cup Range(BDP_SHOW)
    /\ l.kind \in {"terminal", "timeseries"}

FailedLoads == {i \in DOMAIN loads : ~loads[i].found}

Shared == Loaded("pln") \cap Loaded("eur")

\* The levels drawn or printed in a paired comparison
levels_of(q, field) == {q[i][field] : i \in DOMAIN q}

rows_printed == {console[i][2] : i \in {j \in DOMAIN console : console[j][1] = "row"}}

\* A level appears in a paired comparison exactly when both regimes were loaded
\* for it: the difference bars and the summary table of regime_sweep.py, the
\* summary table of regime_welfare.py, the time-series panels of regime_charts.py
C4_SharedLevelsOnly ==
    /\ (script = "sweep" /\ pc \in {"sweep:summary", "sweep:critical", "done"}) =>
           \A c \in Range(SweepColumns) :
               levels_of(figs["p02_regime_difference.png"][c], "BDP") = Shared
    /\ (script = "sweep" /\ pc \in {"sweep:critical", "done"}) => rows_printed = Shared
    /\ (script = "welfare" /\ pc \in {"welfare:optimal", "done"}) => rows_printed = Shared
    /\ (script = "welfare" /\ pc \in {"welfare:summary", "welfare:optimal", "done"}) =>
           (figs["p02_welfare_comparison.png"].bars # <<>> <=> 2000 \in Shared)
    /\ (script = "charts" /\ pc \notin {"charts:timeseries"}) =>
           Range(figs["p02_regime_timeseries.png"])
               = {b \in Range(BDP_SHOW) : {<<"pln", b>>, <<"eur", b>>} \subseteq ts}

\* A level loaded for one regime only raises no error
C4_UnpairedLevelRaisesNoError ==
    (Loaded("pln") # Loaded("eur")) => ~(pc = "aborted" /\ error \in AbsentDataErrors)

\* C4: paired comparisons use only the levels shared by both regimes: a level
\* appears if and only if both the PLN and the EUR data of that level were
\* loaded, and a level present in only one regime is excluded silently, without
\* error.
C4_PairedComparisonsUseSharedLevels == C4_SharedLevelsOnly /\ C4_UnpairedLevelRaisesNoError

\* What a run leaves behind when it ends
Outcome ==
    [pc |-> pc, console |-> console, loads |-> loads, welfare |-> welfare,
     data |-> data, means |-> means, figs |-> figs, error |-> error]

----------------------------------------------------------------------------
(* The aggregations on shuffled records *)

\* Equal as floats are: both NaN, or the same number
SameStat(a, b) == (RatIsNaN(a) /\ RatIsNaN(b)) \/ RatEq(a, b)

SameTable(t, u) ==
    /\ Len(t) = Len(u)
    /\ \A i \in DOMAIN t :
           /\ t[i].BDP = u[i].BDP
           /\ SameStat(t[i].mean, u[i].mean)
           /\ SameStat(t[i].std, u[i].std)

WelfareStatFields ==
    {"RealConsPc_mean", "RealConsPc_std", "Gini_mean", "Gini_std", "Adoption_mean",
     "Unemployment_mean"}

----------------------------------------------------------------------------
(* The transfer of a row, the critical point and the optimal level *)

\* The row has the EffectiveBDP column and a value in it
EffectiveBDPGiven == "EffectiveBDP" \in DOMAIN row /\ row.EffectiveBDP[2] # 0

\* The row's EffectiveBDP when given, the nominal sweep level otherwise
TransferOfRow == IF EffectiveBDPGiven THEN Q(row.EffectiveBDP) ELSE RatOfInt(bdp_amount)

\* C11: the transfer used for a terminal-state row is its EffectiveBDP when the
\* column is present and the value not missing, and the nominal sweep level
\* otherwise, both in the incomes compute_welfare computes (y_unemp = transfer,
\* y_emp = wage + transfer, total income from these) and in the EffectiveBDP of
\* the record load_sweep appends.
C11_TransferIsEffectiveOrNominal ==
    /\ wpc = "done" =>
           /\ RatEq(wrec.actual_bdp, TransferOfRow)
           /\ RatEq(wrec.y_unemp, TransferOfRow)
           /\ RatEq(wrec.y_emp, RatAdd(Q(row.MarketWage), TransferOfRow))
           /\ RatEq(wrec.total_income,
                    RatAdd(RatMul(RatOfInt(wrec.n_emp),
                                  RatAdd(Q(row.MarketWage), TransferOfRow)),
                           RatMul(RatOfInt(wrec.n_unemp), TransferOfRow)))
    /\ srec # <<>> =>
           /\ srec.BDP = bdp_amount
           /\ RatEq(srec.EffectiveBDP, TransferOfRow)

\* A row of the level 2000 whose transfer was cut to 1500: both scripts use 1500
C11_Witness ==
    /\ wpc = "done"
    /\ srec # <<>>
    /\ bdp_amount = 2000
    /\ EffectiveBDPGiven
    /\ row.EffectiveBDP = <<1500, 1>>
    /\ RatEq(wrec.y_unemp, RatOfInt(1500))
    /\ RatEq(srec.EffectiveBDP, RatOfInt(1500))

\* A row of the level 2000 whose EffectiveBDP is missing: both scripts use 2000
C11_FallbackReached ==
    /\ wpc = "done"
    /\ srec # <<>>
    /\ bdp_amount = 2000
    /\ "EffectiveBDP" \in DOMAIN row
    /\ isna(row.EffectiveBDP)
    /\ RatEq(wrec.y_unemp, RatOfInt(2000))
    /\ RatEq(srec.EffectiveBDP, RatOfInt(2000))

\* The critical points printed for a regime
CriticalPrinted(label) ==
    {console[i][3] : i \in {j \in DOMAIN console :
                               /\ console[j][1] = "Critical point"
                               /\ console[j][2] = label}}

\* The standard deviation (squared) of the adoption of the seeds of a level
AdoptionStd(d, bdp) == agg_table[Col(at_level(d, bdp), "Adoption")].std

LoadedLevels(d) == {d[i].BDP : i \in DOMAIN d}

\* C12: for each regime with loaded data, the critical point the sweep script
\* prints is a loaded level of that regime whose standard deviation of adoption
\* across seeds is defined and at least that of every loaded level of the regime
\* that has one (a level with a single seed has none); the level marked in the
\* variance panel is the level printed; and a run that finishes prints one for
\* each regime with data.
C12_CriticalPointMaximisesStd ==
    script = "sweep" =>
        \A r \in Range(Regimes) :
            /\ \A cp \in CriticalPrinted(Upper(r)) :
                   /\ data[r] # <<>>
                   /\ cp \in LoadedLevels(data[r])
                   /\ ~RatIsNaN(AdoptionStd(data[r], cp))
                   /\ \A b \in LoadedLevels(data[r]) :
                          \/ RatIsNaN(AdoptionStd(data[r], b))
                          \/ RatLe(AdoptionStd(data[r], b), AdoptionStd(data[r], cp))
                   /\ figs["p02_bifurcation_comparison.png"].critical[r] = cp
            /\ (pc = "done" /\ data[r] # <<>>) =>
                   Cardinality(CriticalPrinted(Upper(r))) = 1

\* The PLN regime has two levels with different spreads, and the second, wider
\* one is printed as its critical point
C12_Witness ==
    /\ script = "sweep"
    /\ pc = "done"
    /\ LoadedLevels(data["pln"]) = {BDP_LEVELS[1], BDP_LEVELS[2]}
    /\ RatLt(AdoptionStd(data["pln"], BDP_LEVELS[1]),
             AdoptionStd(data["pln"], BDP_LEVELS[2]))
    /\ CriticalPrinted("PLN") = {BDP_LEVELS[2]}

\* The "Optimal BDP" lines printed for a regime
OptimalPrinted(label) ==
    {console[i] : i \in {j \in DOMAIN console :
                            /\ console[j][1] = "Optimal BDP"
                            /\ console[j][2] = label}}

\* C13: for each regime with at least one aggregate row, the optimal BDP the
\* welfare script prints is a level of that regime's aggregate table, printed with
\* the mean real consumption per capita of that level, and no level of the
\* regime's table has a greater mean real consumption per capita; a run that
\* finishes prints one for each regime that has a row and none for the others.
C13_OptimalMaximisesRealConsumption ==
    script = "welfare" =>
        \A label \in {"PLN", "EUR"} :
            /\ \A line \in OptimalPrinted(label) :
                   /\ \E e \in Range(of_regime(welfare, label)) :
                          /\ e.BDP = line[3]
                          /\ RatEq(e.RealConsPc_mean, line[4])
                   /\ \A e \in Range(of_regime(welfare, label)) :
                          RatLe(e.RealConsPc_mean, line[4])
            /\ pc = "done" =>
                   Cardinality(OptimalPrinted(label)) =
                       IF of_regime(welfare, label) = <<>> THEN 0 ELSE 1

\* The EUR regime has two levels, the second with the greater mean real
\* consumption, and the second is printed as its optimum
C13_Witness ==
    /\ script = "welfare"
    /\ pc = "done"
    /\ Len(of_regime(welfare, "EUR")) = 2
    /\ RatLt(of_regime(welfare, "EUR")[1].RealConsPc_mean,
             of_regime(welfare, "EUR")[2].RealConsPc_mean)
    /\ \E line \in OptimalPrinted("EUR") : line[3] = of_regime(welfare, "EUR")[2].BDP

\* The optimum can be the lower level: the first of two levels is printed
C13_FirstLevelCanBeOptimal ==
    /\ script = "welfare"
    /\ pc = "done"
    /\ Len(of_regime(welfare, "EUR")) = 2
    /\ \E line \in OptimalPrinted("EUR") : line[3] = of_regime(welfare, "EUR")[1].BDP


============================================================================
